---------------------------- MODULE Spec2Model ----------------------------
(***************************************************************************)
(* The file-naming options page of Picard                                  *)
(* (picard/ui/options/renaming.py, class RenamingOptionsPage).             *)
(*                                                                         *)
(* The state is the page object (script_text, current_row), the widgets    *)
(* of self.ui that the handlers read or write (check boxes, line edits,    *)
(* the script selector, the two example lists, the error label), the       *)
(* collaborators the page calls (the configuration store, the script       *)
(* editor dialog, the example engine, the main window's two actions) and   *)
(* the outcome of the last handler.  Every handler of the class is one     *)
(* action; a handler that a Qt signal starts synchronously inside another  *)
(* handler is part of that action.                                         *)
(*                                                                         *)
(* Text is a sequence of one-character strings, so that str.strip() and    *)
(* os.path.normpath() are computed character by character.                 *)
(*                                                                         *)
(* The handlers are checked in groups, one specification per group (the    *)
(* options, the validation, the errors of check(), the round trip, the     *)
(* selections); SpecSession is a session on any one of the groups, which   *)
(* part names.                                                             *)
(***************************************************************************)
EXTENDS Integers, Sequences, FiniteSets, TLC

(***************************************************************************)
(* Bounds of the model.                                                    *)
(***************************************************************************)
\* Longest text typed into a line edit or kept as a naming script.
MaxLen == 1
\* Most rows the two example lists show.
MaxRows == 2
\* Most naming scripts the script editor lists.
MaxScripts == 2
\* The handler calls followed from one selection of the user.
MaxCalls == 3

(***************************************************************************)
(* Text.                                                                   *)
(***************************************************************************)
\* The characters str.strip() removes (of those the model types).
Whitespace == {" "}
\* Characters of a naming script: blank, an ordinary character, and an
\* opening parenthesis (which the script language needs closed).
ScriptChars == {" ", "a", "("}
\* Characters of a path: blank, dot and the separator "/".
PathChars == {" ", ".", "/"}

Texts(chars, n) == UNION {[1..k -> chars] : k \in 0..n}
ScriptTexts == Texts(ScriptChars, MaxLen)
PathTexts == Texts(PathChars, MaxLen)

RECURSIVE LStrip(_)
\* str.lstrip(): drop leading whitespace.
LStrip(t) ==
    IF t = <<>> THEN <<>>
    ELSE IF Head(t) \in Whitespace THEN LStrip(Tail(t))
    ELSE t

RECURSIVE RStrip(_)
\* str.rstrip(): drop trailing whitespace.
RStrip(t) ==
    IF t = <<>> THEN <<>>
    ELSE IF t[Len(t)] \in Whitespace THEN RStrip(SubSeq(t, 1, Len(t) - 1))
    ELSE t

\* str.strip(): drop leading and trailing whitespace.
Strip(t) == RStrip(LStrip(t))

\* Truth value of a Python string: the empty string is false.
Truthy(t) == t # <<>>

\* Every character of t is whitespace (the empty text included).
IsBlank(t) == \A i \in 1..Len(t) : t[i] \in Whitespace

RECURSIVE Split(_, _)
\* str.split(sep) for a one-character sep: the components between
\* separators, empty ones kept.
Split(t, sep) ==
    IF \A i \in 1..Len(t) : t[i] # sep THEN <<t>>
    ELSE LET i == CHOOSE j \in 1..Len(t) :
                      t[j] = sep /\ \A k \in 1..(j - 1) : t[k] # sep
         IN  <<SubSeq(t, 1, i - 1)>> \o Split(SubSeq(t, i + 1, Len(t)), sep)

RECURSIVE Join(_, _)
\* sep.join(comps).
Join(comps, sep) ==
    IF comps = <<>> THEN <<>>
    ELSE IF Len(comps) = 1 THEN comps[1]
    ELSE comps[1] \o <<sep>> \o Join(Tail(comps), sep)

\* str.startswith(prefix).
StartsWith(t, prefix) ==
    Len(t) >= Len(prefix) /\ SubSeq(t, 1, Len(prefix)) = prefix

\* str.replace(old, new) for one-character old and new.
Replace(t, old, new) == [i \in 1..Len(t) |-> IF t[i] = old THEN new ELSE t[i]]

CurDir == <<".">>
ParDir == <<".", ".">>

RECURSIVE PosixComps(_, _, _)
\* The loop of posixpath.normpath over the components: "" and "." are
\* dropped, ".." removes the component before it unless there is none to
\* remove (then it is kept in a relative path and dropped in a rooted one).
PosixComps(comps, new_comps, initial_slashes) ==
    IF comps = <<>> THEN new_comps
    ELSE LET comp == Head(comps)
             rest == Tail(comps)
         IN  IF comp = <<>> \/ comp = CurDir
                 THEN PosixComps(rest, new_comps, initial_slashes)
             ELSE IF \/ comp # ParDir
                     \/ (initial_slashes = 0 /\ new_comps = <<>>)
                     \/ (new_comps # <<>> /\ new_comps[Len(new_comps)] = ParDir)
                 THEN PosixComps(rest, Append(new_comps, comp), initial_slashes)
             ELSE IF new_comps # <<>>
                 THEN PosixComps(rest, SubSeq(new_comps, 1, Len(new_comps) - 1),
                                 initial_slashes)
             ELSE PosixComps(rest, new_comps, initial_slashes)

\* posixpath.normpath.
PosixNormPath(path) ==
    IF path = <<>> THEN CurDir
    ELSE LET initial_slashes ==
                 IF ~StartsWith(path, <<"/">>) THEN 0
                 ELSE IF StartsWith(path, <<"/", "/">>)
                         /\ ~StartsWith(path, <<"/", "/", "/">>) THEN 2
                 ELSE 1
             comps == PosixComps(Split(path, "/"), <<>>, initial_slashes)
             joined == Join(comps, "/")
             out == [i \in 1..initial_slashes |-> "/"] \o joined
         IN  IF out = <<>> THEN CurDir ELSE out

RECURSIVE NtComps(_, _, _)
\* The loop of ntpath.normpath over the components, done holding those
\* already passed.
NtComps(comps, done, rooted) ==
    IF comps = <<>> THEN done
    ELSE LET comp == Head(comps)
             rest == Tail(comps)
         IN  IF comp = <<>> \/ comp = CurDir THEN NtComps(rest, done, rooted)
             ELSE IF comp = ParDir
                 THEN IF done # <<>> /\ done[Len(done)] # ParDir
                          THEN NtComps(rest, SubSeq(done, 1, Len(done) - 1), rooted)
                      ELSE IF done = <<>> /\ rooted
                          THEN NtComps(rest, done, rooted)
                      ELSE NtComps(rest, Append(done, comp), rooted)
             ELSE NtComps(rest, Append(done, comp), rooted)

RECURSIVE LStripSep(_)
\* str.lstrip("\\").
LStripSep(t) ==
    IF t # <<>> /\ Head(t) = "\\" THEN LStripSep(Tail(t)) ELSE t

\* ntpath.splitdrive after the separators are normalized: a path that
\* starts with two separators is a UNC path, whose drive is everything up
\* to the second separator after the first two, or the whole path when
\* there are not two.  (A drive letter needs a colon, which the model does
\* not type.)
NtSplitDrive(p) ==
    IF StartsWith(p, <<"\\", "\\">>)
        THEN LET seps(from) == {i \in from..Len(p) : p[i] = "\\"}
                 Min(S) == CHOOSE i \in S : \A j \in S : i <= j
             IN  IF seps(3) = {} THEN <<p, <<>>>>
                 ELSE IF seps(Min(seps(3)) + 1) = {} THEN <<p, <<>>>>
                 ELSE LET index2 == Min(seps(Min(seps(3)) + 1))
                      IN  <<SubSeq(p, 1, index2 - 1), SubSeq(p, index2, Len(p))>>
    ELSE <<<<>>, p>>

\* ntpath.normpath.
NtNormPath(path) ==
    LET p == Replace(path, "/", "\\")
        split == NtSplitDrive(p)
        rooted == StartsWith(split[2], <<"\\">>)
        prefix == IF rooted THEN split[1] \o <<"\\">> ELSE split[1]
        ends_sep == prefix # <<>> /\ prefix[Len(prefix)] = "\\"
        comps0 == NtComps(Split(LStripSep(split[2]), "\\"), <<>>, ends_sep)
        comps == IF prefix = <<>> /\ comps0 = <<>> THEN <<CurDir>> ELSE comps0
    IN  prefix \o Join(comps, "\\")



\* os.path.normpath: ntpath on Windows, posixpath elsewhere.
NormPath(win, path) == IF win THEN NtNormPath(path) ELSE PosixNormPath(path)

(***************************************************************************)
(* State.                                                                  *)
(***************************************************************************)
VARIABLES
    is_win,                         \* picard.const.sys.IS_WIN
    phase,                          \* the page's place in the options dialog's lifecycle
    config,                         \* config.setting, the eleven options of the page
    stored_at_load,                 \* history: config.setting as load() found it
    checked,                        \* isChecked() of the six check boxes
    enabled,                        \* isEnabled() of the widgets the toggles switch
    move_files_to,                  \* ui.move_files_to.text()
    move_additional_files_pattern,  \* ui.move_additional_files_pattern.text()
    script_text,                    \* self.script_text
    renaming_error,                 \* ui.renaming_error: style sheet and text
    current_row,                    \* self.current_row
    example_filename_before,        \* ui.example_filename_before: rows and current row
    example_filename_after,         \* ui.example_filename_after: rows and current row
    naming_script_selector,         \* ui.naming_script_selector: items and current index
    script_editor_page,             \* the ScriptEditorDialog
    examples,                       \* the ScriptEditorExamples
    window,                         \* tagger.window: the two menu actions
    last_call,                      \* the handler that ran last
    raised,                         \* the exception that left it, if any
    selection,                      \* the user's last selection in an example list and
                                    \* the handler calls it started
    displayed,                      \* the error display_error() got last, and whether
                                    \* it went on to OptionsPage.display_error
    part                            \* the part of the page the session works on

vars == <<is_win, phase, config, stored_at_load, checked, enabled, move_files_to,
          move_additional_files_pattern, script_text, renaming_error, current_row,
          example_filename_before, example_filename_after, naming_script_selector,
          script_editor_page, examples, window, last_call, raised, selection,
          displayed, part>>

(***************************************************************************)
(* Values.                                                                 *)
(***************************************************************************)
\* The empty string as a script id: no script selected.
NoId == <<>>
\* The ids of the naming scripts, one-element sequences so that NoId
\* compares with them.
ScriptIds == {<<k>> : k \in 1..MaxScripts}
\* The script lists: the first k scripts, in order.
ScriptLists == {[i \in 1..k |-> <<i>>] : k \in 0..MaxScripts}

\* picard.const.DEFAULT_FILE_NAMING_FORMAT, a non-blank script.
DEFAULT_FILE_NAMING_FORMAT == <<"a">>
\* QStandardPaths.writableLocation(MusicLocation), a directory.
default_music_dir == <<"/">>
\* Texts of the pattern of additional files, which no code of the page reads.
Patterns == {"*.jpg *.png", "*.txt"}

\* options: the defaults of the eleven settings.
options ==
    [windows_compatibility |-> TRUE,
     ascii_filenames |-> FALSE,
     rename_files |-> FALSE,
     file_naming_format |-> DEFAULT_FILE_NAMING_FORMAT,
     move_files |-> FALSE,
     move_files_to |-> default_music_dir,
     move_additional_files |-> FALSE,
     move_additional_files_pattern |-> "*.jpg *.png",
     delete_empty_dirs |-> TRUE,
     file_naming_scripts |-> <<>>,
     selected_file_naming_script_id |-> NoId]

\* No exception.
NoError == [type |-> "none", title |-> "", info |-> ""]
\* ScriptCheckError("", info).
ScriptCheckError(title, info) == [type |-> "ScriptCheckError", title |-> title, info |-> info]
\* OptionsCheckError(title, info).
OptionsCheckError(title, info) == [type |-> "OptionsCheckError", title |-> title, info |-> info]

\* No selection made by the user yet.
NoSelection == [list |-> "none", row |-> -1, calls |-> <<>>]

MsgEmptyFormat == "The file naming format must not be empty."
MsgEmptyDestination == "The location to move files to must not be empty."
STYLESHEET_ERROR == "error"

(***************************************************************************)
(* The collaborators, as far as the page relies on them.                   *)
(***************************************************************************)
\* ScriptParser().eval(script): the script engine, a black box that either
\* evaluates the script or raises with a message.  The model's engine
\* rejects an unclosed parenthesis and says where it is.
ScriptParserEval(script) ==
    IF \A i \in 1..Len(script) : script[i] # "("
        THEN [ok |-> TRUE, message |-> ""]
    ELSE IF script[1] = "("
        THEN [ok |-> FALSE, message |-> "unexpected end of script at 1"]
    ELSE [ok |-> FALSE, message |-> "unexpected end of script after 1"]

\* QComboBox.setCurrentIndex: an index that names no item selects nothing.
SetCurrentIndex(combo, index) ==
    [combo EXCEPT !.index = IF index \in 0..(Len(combo.items) - 1) THEN index ELSE -1]

\* The id of the item a combo box shows, NoId when it shows none.
CurrentData(combo) ==
    IF combo.index \in 0..(Len(combo.items) - 1) THEN combo.items[combo.index + 1] ELSE NoId

\* The index of id in items, -1 when it is not there.
IndexOf(items, id) ==
    IF \E i \in 1..Len(items) : items[i] = id
        THEN (CHOOSE i \in 1..Len(items) : items[i] = id) - 1
    ELSE -1

\* ScriptEditorDialog.load(): the editor takes its scripts and its
\* selection from the store and lists the scripts; an id that names no
\* script selects nothing.
EditorLoad(setting) ==
    [naming_scripts |-> setting.file_naming_scripts,
     selected_script_id |-> setting.selected_file_naming_script_id,
     preset_naming_scripts |->
        [items |-> setting.file_naming_scripts,
         index |-> IndexOf(setting.file_naming_scripts,
                           setting.selected_file_naming_script_id)]]

\* The editor's reaction to a new current index of its script list: the
\* script shown becomes the selected one.
EditorSelect(editor) ==
    [editor EXCEPT !.selected_script_id = CurrentData(editor.preset_naming_scripts)]

\* ScriptEditorDialog.synchronize_selected_example_lines(current_row,
\* source, target): when the source list's row differs from current_row the
\* target list takes the source's row, its signals blocked.  current_row is
\* an argument, passed by value.
synchronize_selected_example_lines(row, source, target) ==
    IF source.row # row THEN [target EXCEPT !.row = source.row] ELSE target

\* Whether a list whose current row synchronize_selected_example_lines set
\* emits itemSelectionChanged: its signals are blocked meanwhile, so it does
\* not.
SignalsBlocked == TRUE
ItemSelectionChanged(old, new) == ~SignalsBlocked /\ old.row # new.row

\* ScriptEditorDialog.update_example_listboxes: both lists are cleared and
\* filled with the examples, so neither has a current row.
update_example_listboxes(n) == [count |-> n, row |-> -1]



(***************************************************************************)
(* The handlers' computations.                                             *)
(***************************************************************************)
\* toggle_file_naming_format without the platform test.
toggle_file_naming_format_any_platform(chk, en) ==
    LET active == chk.move_files \/ chk.rename_files
    IN  [en EXCEPT !.open_script_editor = active,
                   !.ascii_filenames = active,
                   !.windows_compatibility = active]

\* toggle_file_naming_format(): the editor button and the ASCII option are
\* enabled when moving or renaming is checked; so is the Windows
\* compatibility option, except on Windows.
toggle_file_naming_format(chk, en) ==
    LET active == chk.move_files \/ chk.rename_files
    IN  [en EXCEPT !.open_script_editor = active,
                   !.ascii_filenames = active,
                   !.windows_compatibility = IF ~is_win THEN active ELSE @]

\* toggle_file_moving(state).
toggle_file_moving(chk, en, state) ==
    [toggle_file_naming_format(chk, en) EXCEPT
        !.delete_empty_dirs = state,
        !.move_files_to = state,
        !.move_files_to_browse = state,
        !.move_additional_files = state,
        !.move_additional_files_pattern = state]

\* toggle_file_renaming that does nothing.
toggle_file_renaming_nothing(chk, en, state) == en

\* toggle_file_renaming(state).
toggle_file_renaming(chk, en, state) == toggle_file_naming_format(chk, en)

\* ui.rename_files in a new state: QAbstractButton emits toggled(state) when
\* the state changes, and enabledSlot passes it to toggle_file_renaming.
RenameFilesSet(chk, en, state) ==
    LET c == [chk EXCEPT !.rename_files = state]
    IN  [checked |-> c,
         enabled |-> IF chk.rename_files # state
                         THEN toggle_file_renaming(c, en, state) ELSE en]

\* ui.move_files in a new state, likewise.
MoveFilesSet(chk, en, state) ==
    LET c == [chk EXCEPT !.move_files = state]
    IN  [checked |-> c,
         enabled |-> IF chk.move_files # state
                         THEN toggle_file_moving(c, en, state) ELSE en]

\* update_selector_from_editor that fills the selector and leaves the
\* current index where addItem put it.
update_selector_from_editor_no_index(editor) ==
    [items |-> editor.preset_naming_scripts.items,
     index |-> IF editor.preset_naming_scripts.items = <<>> THEN -1 ELSE 0]

\* update_selector_from_editor(): the selector is cleared, takes the
\* editor's items in order (the first addItem makes item 0 current) and then
\* the editor's current index; its signals are blocked meanwhile.
update_selector_from_editor(editor) ==
    SetCurrentIndex(
        [items |-> editor.preset_naming_scripts.items,
         index |-> IF editor.preset_naming_scripts.items = <<>> THEN -1 ELSE 0],
        editor.preset_naming_scripts.index)

\* update_selector_in_editor that leaves the editor alone.
update_selector_in_editor_nothing(selector, editor) == editor

\* update_selector_in_editor(): the editor's list takes the selector's
\* current index, and the editor makes the script shown its selection.
update_selector_in_editor(selector, editor) ==
    EditorSelect([editor EXCEPT !.preset_naming_scripts =
                      SetCurrentIndex(@, selector.index)])

\* match_before_to_after with the two lists the other way round.
match_before_to_after_swapped(before, after) ==
    [before |-> before,
     after |-> synchronize_selected_example_lines(current_row, before, after)]

\* match_before_to_after(), the slot of the 'after' list's
\* itemSelectionChanged: the editor gets current_row, 'after' as the source
\* and 'before' as the target.
match_before_to_after(before, after) ==
    [before |-> synchronize_selected_example_lines(current_row, after, before),
     after |-> after]

\* match_after_to_before(), the slot of the 'before' list's
\* itemSelectionChanged: 'before' is the source and 'after' the target.
match_after_to_before(before, after) ==
    [before |-> before,
     after |-> synchronize_selected_example_lines(current_row, before, after)]

\* The handler calls one selection starts: handler runs on the two lists,
\* and a list whose row it changed emits itemSelectionChanged, which runs
\* the slot connected to it (lines 137 and 138), and so on; calls are the
\* handlers that ran before.
RECURSIVE HandlerCalls(_, _, _, _)
HandlerCalls(handler, before, after, calls) ==
    LET out == IF handler = "match_before_to_after"
                   THEN match_before_to_after(before, after)
               ELSE match_after_to_before(before, after)
        ran == [before |-> out.before, after |-> out.after,
                calls |-> Append(calls, handler)]
    IN  IF Len(ran.calls) >= MaxCalls THEN ran
        ELSE IF ItemSelectionChanged(before, out.before)
            THEN HandlerCalls("match_after_to_before", out.before, out.after, ran.calls)
        ELSE IF ItemSelectionChanged(after, out.after)
            THEN HandlerCalls("match_before_to_after", out.before, out.after, ran.calls)
        ELSE ran

\* The override update_examples_from_local() hands to the example engine.
override_from_local(chk, text) ==
    [ascii_filenames |-> chk.ascii_filenames,
     move_files |-> chk.move_files,
     move_files_to |-> NormPath(is_win, text),
     rename_files |-> chk.rename_files,
     windows_compatibility |-> chk.windows_compatibility]

\* check_format that tests the text without stripping it.
check_format_unstripped ==
    IF ~ScriptParserEval(script_text).ok
        THEN ScriptCheckError("", ScriptParserEval(script_text).message)
    ELSE IF checked.rename_files /\ ~Truthy(script_text)
        THEN ScriptCheckError("", MsgEmptyFormat)
    ELSE NoError

\* check_format that asks the engine only when renaming is on.
check_format_engine_when_renaming ==
    IF checked.rename_files /\ ~ScriptParserEval(script_text).ok
        THEN ScriptCheckError("", ScriptParserEval(script_text).message)
    ELSE IF checked.rename_files /\ ~Truthy(Strip(script_text))
        THEN ScriptCheckError("", MsgEmptyFormat)
    ELSE NoError

\* check_format(): what it raises.  The engine evaluates script_text, and
\* what it raises is raised again as a ScriptCheckError with its message;
\* then, with renaming checked, a script_text that strips to nothing raises.
check_format ==
    IF ~ScriptParserEval(script_text).ok
        THEN ScriptCheckError("", ScriptParserEval(script_text).message)
    ELSE IF checked.rename_files /\ ~Truthy(Strip(script_text))
        THEN ScriptCheckError("", MsgEmptyFormat)
    ELSE NoError

\* check that tests the destination without stripping it.
check_unstripped ==
    IF check_format # NoError THEN check_format
    ELSE IF checked.move_files /\ ~Truthy(move_files_to)
        THEN OptionsCheckError("Error", MsgEmptyDestination)
    ELSE NoError

\* check that tests the destination first.
check_destination_first ==
    IF checked.move_files /\ ~Truthy(Strip(move_files_to))
        THEN OptionsCheckError("Error", MsgEmptyDestination)
    ELSE check_format

\* check(): what it raises.  check_format() first, whose exception leaves
\* check(); then, with moving checked, a destination that strips to nothing
\* raises.
check ==
    IF check_format # NoError THEN check_format
    ELSE IF checked.move_files /\ ~Truthy(Strip(move_files_to))
        THEN OptionsCheckError("Error", MsgEmptyDestination)
    ELSE NoError

\* load that leaves script_text as it is.
load_script_text_kept == script_text

\* load(): script_text is the stored naming format.
load_script_text == config.file_naming_format

\* test() around a call that raises error: the error label, cleared first,
\* shows a ScriptCheckError, which the except clause catches; any other
\* error leaves test().
test_outcome(error) ==
    [renaming_error |->
        IF error.type = "ScriptCheckError"
            THEN [style |-> STYLESHEET_ERROR, text |-> error.info]
        ELSE [style |-> "", text |-> ""],
     raised |-> IF error.type = "ScriptCheckError" THEN NoError ELSE error]

\* test that calls check() for check_format().
test_calls_check == test_outcome(check)

\* test(): the label it leaves and what it raises.
test == test_outcome(check_format)

\* move_files_to_browse(): the text of the destination field after the
\* directory dialog, opened on text, has returned path; the empty path is a
\* dialog the user cancelled.
move_files_to_browse(text, path) ==
    IF Truthy(path) THEN NormPath(is_win, path) ELSE text

\* display_error that tests for OptionsCheckError, of which ScriptCheckError
\* is a subclass.
display_error_isinstance_options(error) ==
    error.type \notin {"ScriptCheckError", "OptionsCheckError"}

\* display_error(error): whether the error goes on to
\* OptionsPage.display_error, the dialog's error box.  An error that is not
\* a ScriptCheckError does.
display_error(error) == error.type # "ScriptCheckError"

\* save that does not store the naming format.
save_settings_without_format ==
    [windows_compatibility |-> checked.windows_compatibility,
     ascii_filenames |-> checked.ascii_filenames,
     rename_files |-> checked.rename_files,
     file_naming_format |-> config.file_naming_format,
     move_files |-> checked.move_files,
     move_files_to |-> NormPath(is_win, move_files_to),
     move_additional_files |-> checked.move_additional_files,
     move_additional_files_pattern |-> move_additional_files_pattern,
     delete_empty_dirs |-> checked.delete_empty_dirs,
     file_naming_scripts |-> script_editor_page.naming_scripts,
     selected_file_naming_script_id |-> script_editor_page.selected_script_id]

\* save that stores the rename option for the move option too.
save_settings_move_from_rename ==
    [windows_compatibility |-> checked.windows_compatibility,
     ascii_filenames |-> checked.ascii_filenames,
     rename_files |-> checked.rename_files,
     file_naming_format |-> Strip(script_text),
     move_files |-> checked.rename_files,
     move_files_to |-> NormPath(is_win, move_files_to),
     move_additional_files |-> checked.move_additional_files,
     move_additional_files_pattern |-> move_additional_files_pattern,
     delete_empty_dirs |-> checked.delete_empty_dirs,
     file_naming_scripts |-> script_editor_page.naming_scripts,
     selected_file_naming_script_id |-> script_editor_page.selected_script_id]

\* save(): the settings it stores.
save_settings ==
    [windows_compatibility |-> checked.windows_compatibility,
     ascii_filenames |-> checked.ascii_filenames,
     rename_files |-> checked.rename_files,
     file_naming_format |-> Strip(script_text),
     move_files |-> checked.move_files,
     move_files_to |-> NormPath(is_win, move_files_to),
     move_additional_files |-> checked.move_additional_files,
     move_additional_files_pattern |-> move_additional_files_pattern,
     delete_empty_dirs |-> checked.delete_empty_dirs,
     file_naming_scripts |-> script_editor_page.naming_scripts,
     selected_file_naming_script_id |-> script_editor_page.selected_script_id]

\* save that sets both menu actions from the rename option.
save_window_both_from_rename(setting) ==
    [enable_renaming_action |-> setting.rename_files,
     enable_moving_action |-> setting.rename_files]

\* save(): the main window's two actions, set from the settings just stored.
save_window(setting) ==
    [enable_renaming_action |-> setting.rename_files,
     enable_moving_action |-> setting.move_files]



(***************************************************************************)
(* Construction.                                                           *)
(***************************************************************************)
\* The editor before its load(): no scripts.
EditorConstructed ==
    [naming_scripts |-> <<>>,
     selected_script_id |-> NoId,
     preset_naming_scripts |-> [items |-> <<>>, index |-> -1]]

\* The page after __init__, with the store holding setting.  setupUi builds
\* the widgets: the check boxes unchecked and the line edits empty; whether
\* the form enables the widgets of the naming format (format_on) and of
\* file moving (moving_on) is not the page's to say.  __init__ sets
\* script_text to "", fills the selector from the editor and sets
\* current_row to -1.
InitPage(win, setting, format_on, moving_on) ==
    /\ is_win = win
    /\ phase = "Unloaded"
    /\ config = setting
    /\ stored_at_load = setting
    /\ checked = [windows_compatibility |-> FALSE,
                  ascii_filenames |-> FALSE,
                  rename_files |-> FALSE,
                  move_files |-> FALSE,
                  move_additional_files |-> FALSE,
                  delete_empty_dirs |-> FALSE]
    /\ enabled = [windows_compatibility |-> format_on,
                  ascii_filenames |-> format_on,
                  open_script_editor |-> format_on,
                  delete_empty_dirs |-> moving_on,
                  move_files_to |-> moving_on,
                  move_files_to_browse |-> moving_on,
                  move_additional_files |-> moving_on,
                  move_additional_files_pattern |-> moving_on]
    /\ move_files_to = <<>>
    /\ move_additional_files_pattern = ""
    /\ script_text = <<>>
    /\ renaming_error = [style |-> "", text |-> ""]
    /\ current_row = -1
    /\ example_filename_before = [count |-> 0, row |-> -1]
    /\ example_filename_after = [count |-> 0, row |-> -1]
    /\ script_editor_page = EditorConstructed
    /\ naming_script_selector = update_selector_from_editor(EditorConstructed)
    /\ examples = [override |-> <<>>, count |-> MaxRows]
    /\ window = [enable_renaming_action |-> setting.rename_files,
                 enable_moving_action |-> setting.move_files]
    /\ last_call = "__init__"
    /\ raised = NoError
    /\ selection = NoSelection
    /\ displayed = [error |-> NoError, generic |-> FALSE]

(***************************************************************************)
(* The handlers.                                                           *)
(***************************************************************************)
\* The page is on screen: the options dialog loads a page before it shows
\* it, and closes once it has saved.
Shown == phase = "Editing"

\* A handler that returns: it ran last and raised nothing.
Returned(name) == last_call' = name /\ raised' = NoError

\* display_examples(): current_row is -1 again and both lists are refilled.
display_examples ==
    /\ current_row' = -1
    /\ example_filename_before' = update_example_listboxes(examples'.count)
    /\ example_filename_after' = update_example_listboxes(examples'.count)

\* update_from_editor(), the slot of the editor's signal_update.
update_from_editor == display_examples

\* script_editor_page.display_examples(): the editor shows the examples on
\* its own lists and emits signal_update.
EditorDisplayExamples == update_from_editor

\* update_examples_from_local(), with the check boxes chk and the
\* destination text: the engine gets the override, the editor displays.
update_examples_from_local(chk, text) ==
    /\ examples' = [examples EXCEPT !.override = <<override_from_local(chk, text)>>]
    /\ EditorDisplayExamples

\* load().
Load ==
    /\ phase = "Unloaded"
    /\ LET c1 == [checked EXCEPT !.windows_compatibility =
                      IF is_win THEN TRUE ELSE config.windows_compatibility]
           e1 == IF is_win THEN [enabled EXCEPT !.windows_compatibility = FALSE]
                 ELSE enabled
           r == RenameFilesSet(c1, e1, config.rename_files)
           m == MoveFilesSet(r.checked, r.enabled, config.move_files)
           c4 == [m.checked EXCEPT
                      !.ascii_filenames = config.ascii_filenames,
                      !.move_additional_files = config.move_additional_files,
                      !.delete_empty_dirs = config.delete_empty_dirs]
       IN  /\ checked' = c4
           /\ enabled' = m.enabled
           /\ update_examples_from_local(c4, config.move_files_to)
    /\ script_text' = load_script_text
    /\ move_files_to' = config.move_files_to
    /\ move_additional_files_pattern' = config.move_additional_files_pattern
    /\ script_editor_page' = EditorLoad(config)
    /\ naming_script_selector' = update_selector_from_editor(script_editor_page')
    /\ stored_at_load' = config
    /\ phase' = "Editing"
    /\ Returned("load")
    /\ UNCHANGED <<is_win, config, renaming_error, window, selection, displayed, part>>

\* save().
Save ==
    /\ Shown
    /\ config' = save_settings
    /\ window' = save_window(config')
    /\ phase' = "Saved"
    /\ Returned("save")
    /\ UNCHANGED <<is_win, stored_at_load, checked, enabled, move_files_to,
                   move_additional_files_pattern, script_text, renaming_error,
                   current_row, example_filename_before, example_filename_after,
                   naming_script_selector, script_editor_page, examples,
                   selection, displayed, part>>

\* A validating call that keeps the pattern it has stripped.
ValidationStripsInPlace ==
    /\ script_text' = Strip(script_text)
    /\ UNCHANGED <<is_win, phase, config, stored_at_load, checked, enabled,
                   move_files_to, move_additional_files_pattern,
                   current_row, example_filename_before, example_filename_after,
                   naming_script_selector, script_editor_page, examples, window,
                   selection, displayed, part>>

\* What the validating calls leave alone.
ValidationFrame ==
    UNCHANGED <<is_win, phase, config, stored_at_load, checked, enabled,
                move_files_to, move_additional_files_pattern, script_text,
                current_row, example_filename_before, example_filename_after,
                naming_script_selector, script_editor_page, examples, window,
                selection, displayed, part>>

\* A call of check_format().
CallCheckFormat ==
    /\ Shown
    /\ last_call' = "check_format"
    /\ raised' = check_format
    /\ UNCHANGED renaming_error
    /\ ValidationFrame

\* check().
Check ==
    /\ Shown
    /\ last_call' = "check"
    /\ raised' = check
    /\ UNCHANGED renaming_error
    /\ ValidationFrame

\* test(): the error label is cleared, and a ScriptCheckError of
\* check_format() is caught and shown on it.
Test ==
    /\ Shown
    /\ renaming_error' = test.renaming_error
    /\ last_call' = "test"
    /\ raised' = test.raised
    /\ ValidationFrame

\* check_formats(): test() and then update_examples_from_local().
CheckFormats ==
    /\ Shown
    /\ renaming_error' = test.renaming_error
    /\ last_call' = "check_formats"
    /\ raised' = test.raised
    /\ IF test.raised = NoError
           THEN update_examples_from_local(checked, move_files_to)
       ELSE UNCHANGED <<examples, current_row, example_filename_before,
                        example_filename_after>>
    /\ UNCHANGED <<is_win, phase, config, stored_at_load, checked, enabled,
                   move_files_to, move_additional_files_pattern, script_text,
                   naming_script_selector, script_editor_page, window,
                   selection, displayed, part>>

\* The options dialog hands the exception that left check() to
\* display_error().
DisplayError ==
    /\ Shown
    /\ last_call = "check"
    /\ raised # NoError
    /\ displayed' = [error |-> raised, generic |-> display_error(raised)]
    /\ Returned("display_error")
    /\ UNCHANGED <<is_win, phase, config, stored_at_load, checked, enabled,
                   move_files_to, move_additional_files_pattern, script_text,
                   renaming_error, current_row, example_filename_before,
                   example_filename_after, naming_script_selector,
                   script_editor_page, examples, window, selection, part>>

\* What a click on an option or an edit of the destination leaves alone.
EditFrame ==
    UNCHANGED <<is_win, phase, config, stored_at_load,
                move_additional_files_pattern, script_text, renaming_error,
                naming_script_selector, script_editor_page, window,
                selection, displayed, part>>

\* The user clicks ui.rename_files: toggled(state) runs
\* toggle_file_renaming, clicked runs update_examples_from_local.
ClickRenameFiles ==
    /\ Shown
    /\ LET r == RenameFilesSet(checked, enabled, ~checked.rename_files)
       IN  /\ checked' = r.checked
           /\ enabled' = r.enabled
           /\ update_examples_from_local(r.checked, move_files_to)
    /\ Returned("click")
    /\ UNCHANGED move_files_to
    /\ EditFrame

\* The user clicks ui.move_files: toggled(state) runs toggle_file_moving,
\* clicked runs update_examples_from_local.
ClickMoveFiles ==
    /\ Shown
    /\ LET m == MoveFilesSet(checked, enabled, ~checked.move_files)
       IN  /\ checked' = m.checked
           /\ enabled' = m.enabled
           /\ update_examples_from_local(m.checked, move_files_to)
    /\ Returned("click")
    /\ UNCHANGED move_files_to
    /\ EditFrame

\* The user clicks ui.ascii_filenames, which an enabled box takes.
ClickAsciiFilenames ==
    /\ Shown
    /\ enabled.ascii_filenames
    /\ checked' = [checked EXCEPT !.ascii_filenames = ~@]
    /\ update_examples_from_local(checked', move_files_to)
    /\ Returned("click")
    /\ UNCHANGED <<enabled, move_files_to>>
    /\ EditFrame

\* The user clicks ui.windows_compatibility, which an enabled box takes.
ClickWindowsCompatibility ==
    /\ Shown
    /\ enabled.windows_compatibility
    /\ checked' = [checked EXCEPT !.windows_compatibility = ~@]
    /\ update_examples_from_local(checked', move_files_to)
    /\ Returned("click")
    /\ UNCHANGED <<enabled, move_files_to>>
    /\ EditFrame

\* The user types a destination into ui.move_files_to and leaves the field:
\* editingFinished runs update_examples_from_local.
EditMoveFilesTo ==
    /\ Shown
    /\ enabled.move_files_to
    /\ \E text \in PathTexts :
        /\ move_files_to' = text
        /\ update_examples_from_local(checked, text)
    /\ Returned("edit")
    /\ UNCHANGED <<checked, enabled>>
    /\ EditFrame

\* The user clicks the browse button and picks a directory or cancels:
\* move_files_to_browse() sets the field's text with setText, which emits no
\* editingFinished.
MoveFilesToBrowse ==
    /\ Shown
    /\ enabled.move_files_to_browse
    /\ \E path \in PathTexts :
        move_files_to' = move_files_to_browse(move_files_to, path)
    /\ Returned("move_files_to_browse")
    /\ UNCHANGED <<checked, enabled, current_row, example_filename_before,
                   example_filename_after, examples>>
    /\ EditFrame

\* The user clicks the script editor's button: show_script_editing_page()
\* shows the editor and runs update_examples_from_local.
ShowScriptEditingPage ==
    /\ Shown
    /\ enabled.open_script_editor
    /\ update_examples_from_local(checked, move_files_to)
    /\ Returned("show_script_editing_page")
    /\ UNCHANGED <<checked, enabled, move_files_to>>
    /\ EditFrame

\* save_from_editor(), the slot of the editor's signal_save: script_text is
\* the editor's script.
SaveFromEditor ==
    /\ Shown
    /\ \E script \in ScriptTexts : script_text' = script
    /\ Returned("save_from_editor")
    /\ UNCHANGED <<is_win, phase, config, stored_at_load, checked, enabled,
                   move_files_to, move_additional_files_pattern, renaming_error,
                   current_row, example_filename_before, example_filename_after,
                   naming_script_selector, script_editor_page, examples, window,
                   selection, displayed, part>>

\* The script changes in the editor, unsaved: signal_update runs
\* update_from_editor.
UpdateFromEditor ==
    /\ Shown
    /\ UNCHANGED <<is_win, phase, config, stored_at_load, checked, enabled,
                   move_files_to, move_additional_files_pattern, script_text,
                   renaming_error, naming_script_selector, script_editor_page,
                   examples, window, selection, displayed, part>>
    /\ update_from_editor
    /\ Returned("update_from_editor")

\* What the selection handlers leave alone.
SelectionFrame ==
    UNCHANGED <<is_win, phase, config, stored_at_load, checked, enabled,
                move_files_to, move_additional_files_pattern, script_text,
                renaming_error, examples, window, displayed, part>>

\* The user picks another script in ui.naming_script_selector:
\* currentIndexChanged runs update_selector_in_editor, and the editor, its
\* selection changed, emits signal_selection_changed, whose slot is
\* update_selector_from_editor.
SelectNamingScript ==
    /\ Shown
    /\ \E index \in 0..(Len(naming_script_selector.items) - 1) :
        /\ index # naming_script_selector.index
        /\ script_editor_page' =
               update_selector_in_editor(
                   [naming_script_selector EXCEPT !.index = index],
                   script_editor_page)
        /\ naming_script_selector' =
               IF script_editor_page'.preset_naming_scripts
                      # script_editor_page.preset_naming_scripts
                   THEN update_selector_from_editor(script_editor_page')
               ELSE [naming_script_selector EXCEPT !.index = index]
    /\ Returned("update_selector_in_editor")
    /\ UNCHANGED <<current_row, example_filename_before, example_filename_after,
                   selection>>
    /\ SelectionFrame

\* The selection changes in the editor (another script is picked there, or
\* the list of scripts changes): signal_selection_changed runs
\* update_selector_from_editor.
EditorSelectionChanged ==
    /\ Shown
    /\ \E scripts \in ScriptLists, index \in -1..(MaxScripts - 1) :
        /\ index < Len(scripts)
        /\ scripts = <<>> <=> index = -1
        /\ script_editor_page' =
               EditorSelect([script_editor_page EXCEPT
                   !.naming_scripts = scripts,
                   !.preset_naming_scripts = [items |-> scripts, index |-> index]])
        /\ script_editor_page' # script_editor_page
    /\ naming_script_selector' = update_selector_from_editor(script_editor_page')
    /\ Returned("update_selector_from_editor")
    /\ UNCHANGED <<current_row, example_filename_before, example_filename_after,
                   selection>>
    /\ SelectionFrame

\* The user selects a row of the 'after' list: itemSelectionChanged runs
\* match_before_to_after, which hands current_row and the two lists to the
\* editor and keeps nothing of what the editor computes.
SelectExampleAfter ==
    /\ Shown
    /\ \E row \in 0..(example_filename_after.count - 1) :
        /\ row # example_filename_after.row
        /\ LET ran == HandlerCalls("match_before_to_after", example_filename_before,
                                   [example_filename_after EXCEPT !.row = row], <<>>)
           IN  /\ example_filename_after' = ran.after
               /\ example_filename_before' = ran.before
               /\ selection' = [list |-> "after", row |-> row, calls |-> ran.calls]
    /\ Returned("match_before_to_after")
    /\ UNCHANGED <<current_row, naming_script_selector, script_editor_page>>
    /\ SelectionFrame

\* The user selects a row of the 'before' list: itemSelectionChanged runs
\* match_after_to_before.
SelectExampleBefore ==
    /\ Shown
    /\ \E row \in 0..(example_filename_before.count - 1) :
        /\ row # example_filename_before.row
        /\ LET ran == HandlerCalls("match_after_to_before",
                                   [example_filename_before EXCEPT !.row = row],
                                   example_filename_after, <<>>)
           IN  /\ example_filename_after' = ran.after
               /\ example_filename_before' = ran.before
               /\ selection' = [list |-> "before", row |-> row, calls |-> ran.calls]
    /\ Returned("match_after_to_before")
    /\ UNCHANGED <<current_row, naming_script_selector, script_editor_page>>
    /\ SelectionFrame

\* update_example_files(), the slot of the sample files button: the engine
\* takes new sample files and the editor displays their examples.
UpdateExampleFiles ==
    /\ Shown
    /\ \E n \in 0..MaxRows : examples' = [examples EXCEPT !.count = n]
    /\ EditorDisplayExamples
    /\ Returned("update_example_files")
    /\ UNCHANGED <<is_win, phase, config, stored_at_load, checked, enabled,
                   move_files_to, move_additional_files_pattern, script_text,
                   renaming_error, naming_script_selector, script_editor_page, window,
                   selection, displayed, part>>

(***************************************************************************)
(* Specifications.                                                         *)
(***************************************************************************)
\* Stores that differ from the defaults in the three options the toggles
\* and the platform act on.
OptionStores ==
    {[options EXCEPT !.windows_compatibility = w, !.rename_files = r, !.move_files = m] :
        w \in BOOLEAN, r \in BOOLEAN, m \in BOOLEAN}

\* Stores that differ from the defaults in the scripts and the selection;
\* the selected id may name no script.
ScriptStores ==
    {[options EXCEPT !.file_naming_scripts = l, !.selected_file_naming_script_id = id] :
        l \in ScriptLists, id \in ScriptIds \cup {NoId}}

\* The scripts and the selection of the stores of the round trip: none or
\* one script, the selected id naming it or not.
RoundTripScripts == {<<>>, << <<1>> >>}
RoundTripIds == {NoId, <<1>>}

\* Every store.
AnyStore ==
    [windows_compatibility : BOOLEAN,
     ascii_filenames : BOOLEAN,
     rename_files : BOOLEAN,
     file_naming_format : ScriptTexts,
     move_files : BOOLEAN,
     move_files_to : PathTexts,
     move_additional_files : BOOLEAN,
     move_additional_files_pattern : Patterns,
     delete_empty_dirs : BOOLEAN,
     file_naming_scripts : RoundTripScripts,
     selected_file_naming_script_id : RoundTripIds]

\* The options of a session: the page is loaded, the user clicks the
\* options and edits the destination, the dialog saves.
Init ==
    /\ part = "options"
    /\ \E win \in BOOLEAN, setting \in OptionStores, f \in BOOLEAN, m \in BOOLEAN :
        InitPage(win, setting, f, m)

Next ==
    \/ Load
    \/ ClickRenameFiles
    \/ ClickMoveFiles
    \/ ClickAsciiFilenames
    \/ ClickWindowsCompatibility
    \/ EditMoveFilesTo
    \/ MoveFilesToBrowse
    \/ ShowScriptEditingPage
    \/ Save

Spec == Init /\ [][Next]_vars

\* The same session on a form that setupUi builds in the derived state of
\* its unchecked options: the widgets that depend on renaming and on moving
\* disabled.
InitForm ==
    /\ part = "options"
    /\ \E win \in BOOLEAN, setting \in OptionStores :
        InitPage(win, setting, FALSE, FALSE)

SpecForm == InitForm /\ [][Next]_vars

\* Validation: the user sets what check_format(), check() and test() read,
\* the dialog validates and saves.
InitValidate ==
    /\ part = "validation"
    /\ \E win \in BOOLEAN : InitPage(win, options, TRUE, TRUE)

NextValidate ==
    \/ Load
    \/ ClickRenameFiles
    \/ ClickMoveFiles
    \/ EditMoveFilesTo
    \/ UpdateFromEditor
    \/ SaveFromEditor
    \/ CallCheckFormat
    \/ Check
    \/ Test
    \/ CheckFormats
    \/ Save

SpecValidate == InitValidate /\ [][NextValidate]_vars

\* The errors of check(): the user sets what check() reads, the dialog calls
\* check() and hands what it raises to display_error().
InitDisplay ==
    /\ part = "errors"
    /\ \E win \in BOOLEAN : InitPage(win, options, TRUE, TRUE)

NextDisplay ==
    \/ Load
    \/ ClickRenameFiles
    \/ ClickMoveFiles
    \/ EditMoveFilesTo
    \/ SaveFromEditor
    \/ Check
    \/ DisplayError

SpecDisplay == InitDisplay /\ [][NextDisplay]_vars

\* The round trip: load() and save() and nothing between, from every store.
InitRoundTrip ==
    /\ part = "round trip"
    /\ \E win \in BOOLEAN, setting \in AnyStore : InitPage(win, setting, TRUE, TRUE)

NextRoundTrip ==
    \/ Load
    \/ Save

SpecRoundTrip == InitRoundTrip /\ [][NextRoundTrip]_vars

\* Selection: the script selector and the editor, the two example lists.
InitSelection ==
    /\ part = "selection"
    /\ \E setting \in ScriptStores : InitPage(FALSE, setting, TRUE, TRUE)

NextSelection ==
    \/ Load
    \/ SelectNamingScript
    \/ EditorSelectionChanged
    \/ SelectExampleAfter
    \/ SelectExampleBefore
    \/ UpdateExampleFiles

SpecSelection == InitSelection /\ [][NextSelection]_vars

\* A session of the options dialog, on one part of the page: the options,
\* the validation, the errors of check() or the selections; the dialog need
\* not save.
InitSession ==
    \/ Init
    \/ InitValidate
    \/ InitDisplay
    \/ InitSelection

NextSession ==
    \/ part = "options" /\ Next
    \/ part = "validation" /\ NextValidate
    \/ part = "errors" /\ NextDisplay
    \/ part = "selection" /\ NextSelection

SpecSession == InitSession /\ [][NextSession]_vars

(***************************************************************************)
(* The claims.                                                             *)
(***************************************************************************)
\* C1: for a pattern the engine accepts, check_format() raises the
\* empty-format error exactly when renaming is checked and every character
\* of the pattern is whitespace, and raises nothing otherwise.
C1_AcceptedPatternFailsOnlyWhenBlankAndRenaming ==
    (last_call = "check_format" /\ ScriptParserEval(script_text).ok) =>
        IF checked.rename_files /\ IsBlank(script_text)
            THEN raised = ScriptCheckError("", MsgEmptyFormat)
        ELSE raised = NoError

\* C1's case: renaming checked, a pattern of one blank, check_format() has
\* raised the empty-format error.
C1_Witness ==
    /\ last_call = "check_format"
    /\ checked.rename_files
    /\ script_text = <<" ">>
    /\ raised.info = MsgEmptyFormat

\* C2: for a pattern the engine rejects, check_format() and check() raise a
\* ScriptCheckError carrying the engine's message, with renaming checked or
\* not, and never the empty-format error.
C2_RejectedPatternRaisesEngineMessage ==
    (last_call \in {"check_format", "check"} /\ ~ScriptParserEval(script_text).ok) =>
        /\ raised.type = "ScriptCheckError"
        /\ raised.info = ScriptParserEval(script_text).message
        /\ raised.info # MsgEmptyFormat

\* C2's case: renaming unchecked, a pattern the engine rejects,
\* check_format() has raised.
C2_Witness ==
    /\ last_call = "check_format"
    /\ ~checked.rename_files
    /\ script_text = <<"(">>
    /\ raised.type = "ScriptCheckError"

\* C3: when format validation passes, check() raises the empty-destination
\* error exactly when moving is checked and every character of the
\* destination is whitespace, and raises nothing otherwise.
C3_DestinationFailsOnlyWhenBlankAndMoving ==
    (last_call = "check" /\ check_format = NoError) =>
        IF checked.move_files /\ IsBlank(move_files_to)
            THEN raised = OptionsCheckError("Error", MsgEmptyDestination)
        ELSE raised = NoError

\* C3's case: moving checked, a destination of one blank, a valid format,
\* check() has raised the empty-destination error.
C3_Witness ==
    /\ last_call = "check"
    /\ checked.move_files
    /\ move_files_to = <<" ">>
    /\ check_format = NoError
    /\ raised.type = "OptionsCheckError"

\* C4, as claimed: with an invalid format, moving checked and a blank
\* destination, check() reports the empty-destination problem.
C4_DestinationReportedDespiteFormatError ==
    (/\ last_call = "check"
     /\ check_format # NoError
     /\ checked.move_files
     /\ IsBlank(move_files_to)) =>
        raised = OptionsCheckError("Error", MsgEmptyDestination)

\* C4, amended: check() stops at the first failure; when format validation
\* fails, what check() raises is the format error and nothing of the
\* destination.
C4_CheckStopsAtFormatError ==
    (last_call = "check" /\ check_format # NoError) =>
        /\ raised = check_format
        /\ raised.type = "ScriptCheckError"
        /\ raised.info # MsgEmptyDestination

\* C4's case: an invalid format, moving checked, a blank destination, and
\* check() has raised the format error.
C4_Witness ==
    /\ last_call = "check"
    /\ check_format # NoError
    /\ checked.move_files
    /\ IsBlank(move_files_to)
    /\ raised.type = "ScriptCheckError"

\* C5, as claimed: save() writes only in a state where check() passes, and
\* the store it leaves holds neither a blank format with rename_files nor a
\* blank destination with move_files.
C5_ValidationFailureBlocksSave ==
    (last_call = "save") =>
        /\ check = NoError
        /\ ~(config.rename_files /\ IsBlank(config.file_naming_format))
        /\ ~(config.move_files /\ IsBlank(config.move_files_to))

\* C6, as claimed: load() and then save() leaves every setting as it was.
C6_LoadSaveIsIdentity ==
    (last_call = "save") => config = stored_at_load

\* C6, amended: load() and then save() leaves every setting as it was,
\* except that the format is stored stripped, the destination normalized
\* and, on Windows, windows_compatibility true; the scripts and the selected
\* id are stored as the editor holds them.
C6_LoadSaveNormalizes ==
    (last_call = "save") =>
        /\ config.ascii_filenames = stored_at_load.ascii_filenames
        /\ config.rename_files = stored_at_load.rename_files
        /\ config.move_files = stored_at_load.move_files
        /\ config.move_additional_files = stored_at_load.move_additional_files
        /\ config.move_additional_files_pattern
               = stored_at_load.move_additional_files_pattern
        /\ config.delete_empty_dirs = stored_at_load.delete_empty_dirs
        /\ config.windows_compatibility
               = (is_win \/ stored_at_load.windows_compatibility)
        /\ config.file_naming_format = Strip(stored_at_load.file_naming_format)
        /\ IsBlank(stored_at_load.file_naming_format)
               => config.file_naming_format = <<>>
        /\ config.move_files_to = NormPath(is_win, stored_at_load.move_files_to)
        /\ stored_at_load.move_files_to = <<>> => config.move_files_to = CurDir
        /\ config.file_naming_scripts = script_editor_page.naming_scripts
        /\ config.selected_file_naming_script_id
               = script_editor_page.selected_script_id

\* C6's case: a store with a blank format, an empty destination and, on
\* Windows, windows_compatibility off has been loaded and saved, and all
\* three have changed.
C6_Witness ==
    /\ last_call = "save"
    /\ is_win
    /\ ~stored_at_load.windows_compatibility /\ config.windows_compatibility
    /\ stored_at_load.file_naming_format = <<" ">> /\ config.file_naming_format = <<>>
    /\ stored_at_load.move_files_to = <<>> /\ config.move_files_to = CurDir
    /\ stored_at_load.move_files /\ stored_at_load.rename_files

\* C7: on Windows, from load() on, the Windows compatibility option is
\* checked and disabled, and a save() stores it true.
C7_WindowsCompatibilityLocked ==
    (is_win /\ phase # "Unloaded") =>
        /\ checked.windows_compatibility
        /\ ~enabled.windows_compatibility
        /\ (last_call = "save" => config.windows_compatibility)

\* C7's case: on Windows a store with the option off was loaded, the user
\* has toggled renaming and moving on, and the dialog has saved.
C7_Witness ==
    /\ is_win
    /\ last_call = "save"
    /\ ~stored_at_load.windows_compatibility
    /\ ~stored_at_load.rename_files /\ checked.rename_files
    /\ ~stored_at_load.move_files /\ checked.move_files
    /\ config.windows_compatibility

\* C8: after save() the window's renaming action equals the stored
\* rename_files and the page's rename box, and its moving action the stored
\* move_files and the page's move box.
C8_SaveSetsHostActions ==
    (last_call = "save") =>
        /\ window.enable_renaming_action = config.rename_files
        /\ config.rename_files = checked.rename_files
        /\ window.enable_moving_action = config.move_files
        /\ config.move_files = checked.move_files

\* C8's case: a save() after which the two actions differ and the moving
\* action is not what the store held at load().
C8_Witness ==
    /\ last_call = "save"
    /\ window.enable_moving_action
    /\ ~window.enable_renaming_action
    /\ ~stored_at_load.move_files
    /\ stored_at_load.rename_files

\* C9: after update_selector_in_editor() and after
\* update_selector_from_editor(), the selector and the editor's list hold
\* the same scripts in the same order and show the same one.
C9_SelectorMatchesEditor ==
    (last_call \in {"update_selector_in_editor", "update_selector_from_editor"}) =>
    /\ naming_script_selector.items = script_editor_page.preset_naming_scripts.items
    /\ naming_script_selector.index = script_editor_page.preset_naming_scripts.index
    /\ CurrentData(naming_script_selector)
           = CurrentData(script_editor_page.preset_naming_scripts)

\* C9's case: the user has picked the second script in the selector and the
\* editor shows it; before, the editor had changed its list.
C9_Witness ==
    /\ last_call = "update_selector_in_editor"
    /\ naming_script_selector.index = 1
    /\ script_editor_page.preset_naming_scripts.index = 1
    /\ script_editor_page.naming_scripts # stored_at_load.file_naming_scripts

\* C10, as claimed: after a selection handler, current_row and the current
\* rows of both lists are the same index.
C10_SelectionSetsCurrentRow ==
    (last_call \in {"match_before_to_after", "match_after_to_before"}) =>
        /\ current_row = example_filename_after.row
        /\ example_filename_before.row = example_filename_after.row

C12_NoCheckErrorReachesDialog ==
    (last_call = "display_error") => ~displayed.generic

\* C12, amended: of the errors of check(), display_error() keeps the two
\* ScriptCheckErrors (the engine's error and the empty format) from the
\* dialog's error box and hands the empty-destination error, an
\* OptionsCheckError, on to it.
C12_OnlyScriptErrorsKeptFromDialog ==
    (last_call = "display_error") =>
        /\ displayed.error # NoError
        /\ displayed.error.type = "ScriptCheckError" => ~displayed.generic
        /\ displayed.error.info = MsgEmptyFormat => ~displayed.generic
        /\ displayed.error.info = MsgEmptyDestination =>
               /\ displayed.error.type = "OptionsCheckError"
               /\ displayed.generic
        /\ displayed.generic => displayed.error.info = MsgEmptyDestination

\* C12's case: check() has raised the empty-destination error, and
\* display_error() has handed it on to the dialog's error box.
C12_Witness ==
    /\ last_call = "display_error"
    /\ checked.move_files
    /\ IsBlank(move_files_to)
    /\ displayed.error = OptionsCheckError("Error", MsgEmptyDestination)
    /\ displayed.generic

C14_PreviewFollowsOptions ==
    (phase # "Unloaded") =>
        examples.override = <<override_from_local(checked, move_files_to)>>

\* C15: test() returns whatever check_format() raises; after it the error
\* label shows the message of the format error in the error style when
\* format validation fails and is empty, with no style, when it passes, and
\* the page is still on screen.
C15_TestShowsFormatErrors ==
    (last_call \in {"test", "check_formats"}) =>
        /\ raised = NoError
        /\ Shown
        /\ IF check_format # NoError
               THEN renaming_error = [style |-> STYLESHEET_ERROR,
                                      text |-> check_format.info]
           ELSE renaming_error = [style |-> "", text |-> ""]
        /\ ~ScriptParserEval(script_text).ok =>
               renaming_error.text = ScriptParserEval(script_text).message

\* C15's case: test() has run on a pattern the engine rejects, with moving
\* checked and a blank destination, and the label shows the engine's
\* message.
C15_Witness ==
    /\ last_call = "test"
    /\ script_text = <<"(">>
    /\ checked.move_files /\ IsBlank(move_files_to)
    /\ raised = NoError
    /\ renaming_error = [style |-> STYLESHEET_ERROR,
                         text |-> "unexpected end of script at 1"]

\* C16: a call of check_format() or of check(), raising or not, leaves the
\* pattern, the check boxes, the destination, current_row and the store as
\* they were, and with them what either call raises; a call that follows a
\* call of the same raises the same.
C16_ValidationChangesNothing ==
    [][(last_call' \in {"check_format", "check"}) =>
           /\ UNCHANGED <<script_text, checked, move_files_to,
                          move_additional_files_pattern, current_row, config>>
           /\ check_format' = check_format
           /\ check' = check
           /\ raised' = IF last_call' = "check" THEN check ELSE check_format
           /\ (last_call = last_call') => raised' = raised]_vars

\* C16's case: check() has raised the empty-destination error on a blank
\* pattern while renaming is off, and the pattern, the destination and the
\* store are what they were.
C16_Witness ==
    /\ last_call = "check"
    /\ raised = OptionsCheckError("Error", MsgEmptyDestination)
    /\ script_text = <<" ">>
    /\ move_files_to = <<" ">>
    /\ checked.move_files /\ ~checked.rename_files
    /\ current_row = -1
    /\ config = stored_at_load

\* C17: the store changes in no step but save(); until save() it is what
\* load() found; and save() stores each of the eleven settings from the
\* page: the six check boxes, the stripped pattern, the normalized
\* destination, the pattern of additional files, and the editor's scripts and
\* selected id.
C17_StoreWrittenOnlyBySave ==
    /\ [](phase # "Saved" => config = stored_at_load)
    /\ [][/\ config' # config => last_call' = "save"
          /\ last_call' = "save" =>
                /\ DOMAIN config' = DOMAIN options
                /\ config'.windows_compatibility = checked.windows_compatibility
                /\ config'.ascii_filenames = checked.ascii_filenames
                /\ config'.rename_files = checked.rename_files
                /\ config'.file_naming_format = Strip(script_text)
                /\ config'.move_files = checked.move_files
                /\ config'.move_files_to = NormPath(is_win, move_files_to)
                /\ config'.move_additional_files = checked.move_additional_files
                /\ config'.move_additional_files_pattern
                       = move_additional_files_pattern
                /\ config'.delete_empty_dirs = checked.delete_empty_dirs
                /\ config'.file_naming_scripts = script_editor_page.naming_scripts
                /\ config'.selected_file_naming_script_id
                       = script_editor_page.selected_script_id]_vars

\* C17's case: after load() the user has checked renaming, typed a
\* destination and saved a pattern from the editor, test() and check() have
\* run, and save() has stored all three.
C17_Witness ==
    /\ last_call = "save"
    /\ renaming_error.style = STYLESHEET_ERROR
    /\ config.rename_files /\ ~stored_at_load.rename_files
    /\ config.file_naming_format = <<"(">>
    /\ stored_at_load.file_naming_format = DEFAULT_FILE_NAMING_FORMAT
    /\ config.move_files /\ config.move_files_to = CurDir
    /\ stored_at_load.move_files_to = default_music_dir

\* C18: script_text changes in no step but load(), which sets it to the
\* stored naming format, and save_from_editor(); every other handler leaves
\* it as it was, a change of the script in the editor included, and save()
\* stores it stripped.
C18_PatternChangesOnlyOnLoadAndEditorSave ==
    [][/\ script_text' # script_text =>
             last_call' \in {"load", "save_from_editor"}
       /\ last_call' = "load" => script_text' = config.file_naming_format
       /\ last_call' \in {"check_format", "check", "test", "check_formats",
                           "update_from_editor", "save"} =>
             script_text' = script_text
       /\ last_call' = "save" =>
             config'.file_naming_format = Strip(script_text)]_vars

\* C18's case: a pattern was saved from the editor, the script has changed
\* in the editor since, and script_text is still the pattern saved.
C18_Witness ==
    /\ last_call = "update_from_editor"
    /\ script_text = <<"(">>
    /\ stored_at_load.file_naming_format = DEFAULT_FILE_NAMING_FORMAT
    /\ config.file_naming_format = DEFAULT_FILE_NAMING_FORMAT

=============================================================================
